---- MODULE Spec2Model ----
(***************************************************************************)
(* A model of super-zhot.py: the construction of a Game from a list of     *)
(* CSV rows (or of the DefaultGame), the Move objects with their           *)
(* name-keyed `beats` dictionary and index-keyed `beats_num` list, the     *)
(* rounds of the main loop with their score keeping, and the Diagram       *)
(* (circle layout and edges).                                              *)
(*                                                                         *)
(* Text is a sequence of one-character strings, so that str.strip,         *)
(* str.casefold, the substring test `in` and str.join are computed and     *)
(* not assumed.  Python indices are 0-based: p[i] of the source is         *)
(* p[i + 1] of a sequence here.  Fractions (angles) are exact rationals    *)
(* <<numerator, denominator>>; sines and cosines are kept symbolic.        *)
(***************************************************************************)
EXTENDS Integers, Sequences, FiniteSets, TLC

VARIABLES pc, argv, game, the_round, diagram, played, decided

vars == <<pc, argv, game, the_round, diagram, played, decided>>

(***************************************************************************)
(* Bounds of the model.                                                    *)
(***************************************************************************)
\* Longest catalog of distinct one-letter names that is built and drawn.
MaxCatalog == 21
\* Longest catalog of distinct one-letter names that is played.
MaxRows == 7
\* Longest catalog of freely drawn rows (blank names, a name twice, ...)
\* that is built and drawn.
MaxArbCatalog == 5
\* Longest catalog of freely drawn rows that is played.
MaxArbRows == 3
\* Longest verb list of a row of a catalog of distinct names.
MaxVerbs == 2
\* Real-move rounds played before the model stops offering moves.
MaxRounds == 2
\* Most Move objects handed to a Diagram that is built on its own.
MaxLayout == 4

(***************************************************************************)
(* Text.                                                                   *)
(***************************************************************************)
Letters ==
  <<"a", "b", "c", "d", "e", "f", "g", "h", "i", "j", "k", "l", "m",
    "n", "o", "p", "q", "r", "s", "t", "u", "v", "w", "x", "y", "z">>

Whitespace == {" "}

\* str.strip(): leading and trailing whitespace removed.
RECURSIVE LStrip(_)
LStrip(t) ==
  IF t # <<>> /\ Head(t) \in Whitespace THEN LStrip(Tail(t)) ELSE t

RECURSIVE RStrip(_)
RStrip(t) ==
  IF t # <<>> /\ t[Len(t)] \in Whitespace
    THEN RStrip(SubSeq(t, 1, Len(t) - 1))
    ELSE t

Strip(t) == RStrip(LStrip(t))

\* str.casefold() on the characters of the model: capitals to small letters.
FoldChar(c) ==
  CASE c = "A" -> "a"
    [] c = "B" -> "b"
    [] c = "P" -> "p"
    [] c = "R" -> "r"
    [] c = "S" -> "s"
    [] OTHER -> c

Casefold(t) == [i \in 1..Len(t) |-> FoldChar(t[i])]

\* needle in hay, for strings.
Contains(hay, needle) ==
  \E i \in 0..(Len(hay) - Len(needle)) :
    SubSeq(hay, i + 1, i + Len(needle)) = needle

\* sep.join(parts)
RECURSIVE Join(_, _)
Join(sep, parts) ==
  IF parts = <<>> THEN <<>>
  ELSE IF Len(parts) = 1 THEN parts[1]
  ELSE parts[1] \o sep \o Join(sep, Tail(parts))

\* range(start, stop, step) for step > 0, as a sequence.
Range(start, stop, step) ==
  LET n == IF stop > start THEN (stop - start + step - 1) \div step ELSE 0
  IN  [k \in 1..n |-> start + (k - 1) * step]

\* The set of the elements of a sequence.
Elems(s) == {s[k] : k \in 1..Len(s)}

(***************************************************************************)
(* Score                                                                   *)
(***************************************************************************)
Score(human, ai) == [human |-> human, ai |-> ai]

(***************************************************************************)
(* Move                                                                    *)
(***************************************************************************)
generic_verb == <<"b", "e", "a", "t", "s">>

EmptyDict == [k \in {} |-> <<>>]

\* d[key] = value on a dict: a new key is added, an old one overwritten.
DictSet(d, key, value) ==
  [k \in (DOMAIN d) \cup {key} |-> IF k = key THEN value ELSE d[k]]

\* VerbFor without the strip().
VerbForRaw(verbs, j) ==
  IF j < Len(verbs) THEN verbs[j + 1] ELSE <<"b", "e", "a", "t", "s">>

\* The verb read for the j-th offset (j from 0): info.pop(0).strip(), or
\* generic_verb once the list is exhausted.  `verbs` is info after the name
\* was popped.
VerbFor(verbs, j) ==
  IF j < Len(verbs) THEN Strip(verbs[j + 1]) ELSE generic_verb

\* BeatsLoop over range(0, total, 2): the even offsets.
RECURSIVE BeatsLoopEven(_, _, _, _, _)
BeatsLoopEven(number, verbs, move_names, s, beats) ==
  LET total == Len(move_names)
      offsets == Range(0, total, 2)
  IN  IF s > Len(offsets) THEN beats
      ELSE LET offset == offsets[s]
               verb == VerbFor(verbs, s - 1)
               loser == move_names[((number + offset) % total) + 1]
           IN  BeatsLoopEven(number, verbs, move_names, s + 1,
                             DictSet(beats, loser, verb))

\* The loop of Move.__init__ over range(1, total, 2), from its s-th step.
RECURSIVE BeatsLoop(_, _, _, _, _)
BeatsLoop(number, verbs, move_names, s, beats) ==
  LET total == Len(move_names)
      offsets == Range(1, total, 2)
  IN  IF s > Len(offsets) THEN beats
      ELSE LET offset == offsets[s]
               verb == VerbFor(verbs, s - 1)
               loser == move_names[((number + offset) % total) + 1]
           IN  BeatsLoop(number, verbs, move_names, s + 1,
                         DictSet(beats, loser, verb))

\* BeatsNum with the even i of range(total).
BeatsNumEven(number, total) ==
  LET even == SelectSeq(Range(0, total, 1), LAMBDA i : i % 2 = 0)
  IN  [k \in 1..Len(even) |-> (even[k] + number) % total]

\* beats_num: (i + number) % total for the odd i of range(total).
BeatsNum(number, total) ==
  LET odd == SelectSeq(Range(0, total, 1), LAMBDA i : i % 2 # 0)
  IN  [k \in 1..Len(odd) |-> (odd[k] + number) % total]

\* Move(number, info, move_names).  `class` stands for the Python class of
\* the object, which the source probes through the attribute `move`.
Move(number, info, move_names) ==
  [class |-> "Move",
   move |-> Head(info),
   beats |-> BeatsLoop(number, Tail(info), move_names, 1, EmptyDict),
   num |-> number,
   beats_num |-> BeatsNum(number, Len(move_names))]

\* Move.result_vs(enemy_move): the words joined by " ", then ".".
result_vs(self, enemy_move) ==
  Join(<<" ">>, <<self.move, self.beats[enemy_move], enemy_move>>) \o <<".">>

\* AdminMove(quitting): move is False.
AdminMove(quitting) == [class |-> "AdminMove", quitting |-> quitting]

\* The truth value of obj.move: False for an AdminMove, and for a Move the
\* truth value of its name, which is false for the empty string.
MoveIsTruthy(obj) == obj.class = "Move" /\ obj.move # <<>>

(***************************************************************************)
(* Game                                                                    *)
(***************************************************************************)
NoGame == [move_objs |-> <<>>, score |-> Score(0, 0), rounds |-> 0,
           move_names |-> <<>>]

\* Game.complete_initialisation(move_names), given self.move_objs.  The
\* string self.rules, which is only printed, is not modelled.
complete_initialisation(move_objs, move_names) ==
  [move_objs |-> move_objs,
   score |-> Score(0, 0),
   rounds |-> 0,
   move_names |-> Join(<<",", " ">>, move_names)]

\* The rows csv.reader yields that are kept: blank lines are ignored.
NonBlankRows(rows) == SelectSeq(rows, LAMBDA row : Len(row) # 0)

\* ShapeError without the test for fewer than 3 moves.
ShapeErrorOddOnly(moves_from_file) ==
  IF Len(moves_from_file) % 2 = 0 THEN "NotOddError" ELSE "none"

\* The error Game.__init__ raises on the kept rows, or "none".
ShapeError(moves_from_file) ==
  IF Len(moves_from_file) % 2 = 0 THEN "NotOddError"
  ELSE IF Len(moves_from_file) < 3 THEN "InsufficientMovesError"
  ELSE "none"

\* The error that ends Game.__init__ with exit(), or "none".
OpenError(file) ==
  CASE file.kind = "undecodable" -> "UnicodeDecodeError"
    [] file.kind = "directory" -> "IsADirectoryError"
    [] file.kind = "missing" -> "FileNotFoundError"
    [] OTHER -> ShapeError(NonBlankRows(file.rows))

\* The list of Move objects Game.__init__ builds from the kept rows.
BuildMoves(moves_from_file) ==
  LET move_names == [k \in 1..Len(moves_from_file) |-> moves_from_file[k][1]]
  IN  [k \in 1..Len(moves_from_file) |->
         Move(k - 1, moves_from_file[k], move_names)]

\* The Game object Game.__init__ leaves when no error ends it.
GameOf(file) ==
  LET moves_from_file == NonBlankRows(file.rows)
      move_names == [k \in 1..Len(moves_from_file) |-> moves_from_file[k][1]]
  IN  complete_initialisation(BuildMoves(moves_from_file), move_names)

\* The lists DefaultGame hands to Move: a name and one verb each.
DefaultRows ==
  << << <<"S", "c", "i", "s", "s", "o", "r", "s">>, <<"c", "u", "t", "s">> >>,
     << <<"P", "a", "p", "e", "r">>, <<"w", "r", "a", "p", "s">> >>,
     << <<"R", "o", "c", "k">>, <<"b", "l", "u", "n", "t", "s">> >> >>

\* DefaultGame()
DefaultGame ==
  LET move_names == <<DefaultRows[1][1], DefaultRows[2][1], DefaultRows[3][1]>>
      scissors == Move(0, DefaultRows[1], move_names)
      paper == Move(1, DefaultRows[2], move_names)
      rock == Move(2, DefaultRows[3], move_names)
  IN  complete_initialisation(<<scissors, paper, rock>>, move_names)

(***************************************************************************)
(* Fractions: <<n, d>> with d > 0, in lowest terms.                        *)
(***************************************************************************)
RECURSIVE Gcd(_, _)
Gcd(a, b) == IF b = 0 THEN a ELSE Gcd(b, a % b)

Abs(a) == IF a < 0 THEN -a ELSE a

Rat(n, d) ==
  LET g == Gcd(Abs(n), d)
  IN  <<n \div g, d \div g>>

RatAdd(p, q) == Rat(p[1] * q[2] + q[1] * p[2], p[2] * q[2])

RatSub(p, q) == Rat(p[1] * q[2] - q[1] * p[2], p[2] * q[2])

RatTimes(k, q) == Rat(k * q[1], q[2])

\* p / q for q > 0
RatDiv(p, q) == Rat(p[1] * q[2], p[2] * q[1])

RatLess(p, q) == p[1] * q[2] < q[1] * p[2]

\* q % m for an integer m > 0 and q >= 0
RatMod(q, m) == Rat(q[1] % (m * q[2]), q[2])

\* round(q) of Python and numpy for q >= 0: to the nearest integer, a half
\* to the even neighbour.
RoundHalfEven(q) ==
  LET f == q[1] \div q[2]
      r == q[1] % q[2]
  IN  IF 2 * r < q[2] THEN f
      ELSE IF 2 * r > q[2] THEN f + 1
      ELSE IF f % 2 = 0 THEN f ELSE f + 1

\* frange over the half-open interval: the end point is left out.
frangeOpen(xini, xfin, delta) ==
  LET npts == RoundHalfEven(RatDiv(RatSub(xfin, xini), delta))
  IN  [k \in 1..npts |-> RatAdd(RatTimes(k - 1, delta), xini)]

\* matplotlib.mlab.frange(xini, xfin, delta), whose interval is closed:
\* npts = int(round((xfin - xini) / delta)) + 1 values arange(npts) * delta + xini.
frange(xini, xfin, delta) ==
  LET npts == RoundHalfEven(RatDiv(RatSub(xfin, xini), delta)) + 1
  IN  [k \in 1..npts |-> RatAdd(RatTimes(k - 1, delta), xini)]

(***************************************************************************)
(* Diagram                                                                 *)
(***************************************************************************)
FULL_CIRCLE == 360

DIAGRAM_SIZE == 1000

NORTH == 0

EAST == 90

SOUTH == 180

WEST == 270

max_text_len == 12

NoDiagram == [move_points |-> <<>>, edges |-> <<>>, labels |-> <<>>, r |-> 0]

\* A coordinate given as a number.
Exact(v) == [base |-> v, sign |-> 0, leg |-> "none", theta |-> Rat(0, 1), hyp |-> 0]

\* The coordinate base + sign * hyp * leg(radians(theta)), where leg is
\* math.sin ("opposite") or math.cos ("adjacent"), rounded to 2 places.
Trig(base, sign, leg, theta, hyp) ==
  [base |-> base, sign |-> sign, leg |-> leg, theta |-> theta, hyp |-> hyp]

Point(x, y) == [x |-> x, y |-> y]

\* PointAt with the north point alone placed exactly.
PointAtNorthOnly(angle, DIAGRAM_RADIUS, CIRCLE_RADIUS) ==
  LET hypotenuse == DIAGRAM_RADIUS - CIRCLE_RADIUS
      radians == RatMod(angle, EAST)
      opposite(sign) == Trig(DIAGRAM_RADIUS, sign, "opposite", radians, hypotenuse)
      adjacent(sign) == Trig(DIAGRAM_RADIUS, sign, "adjacent", radians, hypotenuse)
  IN  IF angle = Rat(NORTH, 1) \/ angle = Rat(FULL_CIRCLE, 1)
        THEN Point(Exact(DIAGRAM_RADIUS), Exact(CIRCLE_RADIUS))
      ELSE IF RatLess(angle, Rat(EAST, 1))
        THEN Point(opposite(1), adjacent(-1))
      ELSE IF RatLess(angle, Rat(SOUTH, 1))
        THEN Point(adjacent(1), opposite(1))
      ELSE IF RatLess(angle, Rat(WEST, 1))
        THEN Point(opposite(-1), adjacent(1))
      ELSE Point(adjacent(-1), opposite(-1))

\* The body of the loop over the angles: the point laid out at `angle`;
\* `radians` is the angle within its quadrant, angle % EAST.
PointAt(angle, DIAGRAM_RADIUS, CIRCLE_RADIUS) ==
  LET hypotenuse == DIAGRAM_RADIUS - CIRCLE_RADIUS
      radians == RatMod(angle, EAST)
      opposite(sign) == Trig(DIAGRAM_RADIUS, sign, "opposite", radians, hypotenuse)
      adjacent(sign) == Trig(DIAGRAM_RADIUS, sign, "adjacent", radians, hypotenuse)
  IN  IF angle = Rat(NORTH, 1) \/ angle = Rat(FULL_CIRCLE, 1)
        THEN Point(Exact(DIAGRAM_RADIUS), Exact(CIRCLE_RADIUS))
      ELSE IF angle = Rat(EAST, 1)
        THEN Point(Exact(DIAGRAM_SIZE - CIRCLE_RADIUS), Exact(DIAGRAM_RADIUS))
      ELSE IF angle = Rat(SOUTH, 1)
        THEN Point(Exact(DIAGRAM_RADIUS), Exact(DIAGRAM_SIZE - CIRCLE_RADIUS))
      ELSE IF angle = Rat(WEST, 1)
        THEN Point(Exact(CIRCLE_RADIUS), Exact(DIAGRAM_RADIUS))
      ELSE IF RatLess(angle, Rat(EAST, 1))
        THEN Point(opposite(1), adjacent(-1))
      ELSE IF RatLess(angle, Rat(SOUTH, 1))
        THEN Point(adjacent(1), opposite(1))
      ELSE IF RatLess(angle, Rat(WEST, 1))
        THEN Point(opposite(-1), adjacent(1))
      ELSE Point(adjacent(-1), opposite(-1))

\* The angles the points are laid out at.
Angles(n) ==
  LET angle_slice == Rat(FULL_CIRCLE, n)
  IN  frange(angle_slice, Rat(FULL_CIRCLE, 1), angle_slice)

DiagramRadius == RoundHalfEven(Rat(DIAGRAM_SIZE, 2))

CircleRadius(n) == RoundHalfEven(Rat(DiagramRadius, n))

\* move_points
MovePoints(n) ==
  LET angles == Angles(n)
  IN  [k \in 1..Len(angles) |-> PointAt(angles[k], DiagramRadius, CircleRadius(n))]

\* The lines drawn, in the order of the two loops: one from point i to
\* point target for every target of move_objs[i].beats_num, as <<i, target>>.
RECURSIVE Edges(_, _, _)
Edges(move_objs, num_moves, i) ==
  IF i >= num_moves THEN <<>>
  ELSE LET targets == move_objs[i + 1].beats_num
       IN  [k \in 1..Len(targets) |-> <<i, targets[k]>>]
             \o Edges(move_objs, num_moves, i + 1)

\* The legend of circle i: its text and the coefficient text_length.
Label(obj) ==
  LET text == obj.move
      text_length == IF Len(text) > max_text_len THEN max_text_len ELSE Len(text)
  IN  [text |-> text, text_length |-> Rat(text_length, max_text_len)]

\* Diagram(move_objs): the data of the drawing that is saved.
Diagram(move_objs) ==
  LET move_points == MovePoints(Len(move_objs))
      num_moves == Len(move_points)
  IN  [move_points |-> move_points,
       edges |-> Edges(move_objs, num_moves, 0),
       labels |-> [k \in 1..num_moves |-> Label(move_objs[k])],
       r |-> CircleRadius(Len(move_objs))]

(***************************************************************************)
(* Round                                                                   *)
(***************************************************************************)
QuitWords == { <<"e", "x", "i", "t">>, <<"q", "u", "i", "t">> }

ScoreWords == { <<"s", "c", "o", "r", "e">>, <<"p", "o", "i", "n", "t", "s">> }

RoundsWords == { <<"r", "o", "u", "n", "d", "s">>, <<"l", "e", "n", "g", "t", "h">> }

HelpWords == { <<"h", "e", "l", "p">>, <<"m", "o", "v", "e", "s">>,
               <<"r", "u", "l", "e", "s">>, <<"?">> }

DiagramWords == { <<"d", "i", "a">>, <<"d", "i", "a", "g", "r", "a", "m">> }

\* The indices (from 1) of the candidates of the loop of get_human_move
\* whose name holds stdin, both casefolded.
Candidates(g, stdin) ==
  {k \in 1..Len(g.move_objs) :
     Contains(Casefold(g.move_objs[k].move), Casefold(stdin))}

\* Round.get_human_move(game) on the line `line` read by input().
get_human_move(g, line) ==
  LET stdin == Strip(line)
      found == Candidates(g, stdin)
  IN  IF stdin = <<>> \/ stdin \in QuitWords THEN AdminMove(TRUE)
      ELSE IF stdin \in ScoreWords THEN AdminMove(FALSE)
      ELSE IF stdin \in RoundsWords THEN AdminMove(FALSE)
      ELSE IF stdin \in HelpWords THEN AdminMove(FALSE)
      ELSE IF stdin \in DiagramWords THEN AdminMove(FALSE)
      ELSE IF found # {}
        THEN g.move_objs[CHOOSE k \in found : \A m \in found : k <= m]
      ELSE AdminMove(FALSE)

\* Whether get_human_move builds (and saves) a Diagram on that line.
DrawsDiagram(line) == Strip(line) \in DiagramWords

NoRound == [human |-> AdminMove(FALSE), ai |-> AdminMove(FALSE),
            moves |-> <<>>, outcome |-> [kind |-> "none", text |-> <<>>],
            score |-> Score(0, 0)]

\* OutcomeKind without the test for a stalemate.
OutcomeKindNoStalemate(human, ai) ==
  IF human.move \in DOMAIN ai.beats THEN "ai"
  ELSE IF ai.move \in DOMAIN human.beats THEN "human"
  ELSE "invalid"

\* The branch of Round.__init__ taken for a real move of the human.
OutcomeKind(human, ai) ==
  IF human = ai THEN "stalemate"
  ELSE IF human.move \in DOMAIN ai.beats THEN "ai"
  ELSE IF ai.move \in DOMAIN human.beats THEN "human"
  ELSE "invalid"

\* RoundsAfter counting every round that does not quit.
RoundsAfterAlways(g, human) == g.rounds + 1

\* game.rounds as Round.__init__ leaves it: one more for a real move.
RoundsAfter(g, human) ==
  IF MoveIsTruthy(human) THEN g.rounds + 1 ELSE g.rounds

\* Round(game), given the move of the human and the choice of the AI:
\* how the constructor ends ("done", "exit" or "raise"), the Round object
\* with the locals human and ai, and game.rounds as it leaves it.  moves is
\* the pair of names the sentence names; the remark drawn at random for the
\* printed outcome is not modelled.
Round(g, human, ai) ==
  LET kind == OutcomeKind(human, ai)
      text == CASE kind = "ai" -> result_vs(ai, human.move)
                [] kind = "human" -> result_vs(human, ai.move)
                [] OTHER -> <<>>
  IN  IF MoveIsTruthy(human)
        THEN [status |-> IF kind = "invalid" THEN "raise" ELSE "done",
              round |-> [human |-> human, ai |-> ai,
                         moves |-> <<human.move, ai.move>>,
                         outcome |-> [kind |-> kind, text |-> text],
                         score |-> Score(IF kind = "human" THEN 1 ELSE 0,
                                         IF kind = "ai" THEN 1 ELSE 0)],
              rounds |-> RoundsAfter(g, human)]
      ELSE [status |-> IF human.class = "AdminMove" /\ human.quitting
                         THEN "exit" ELSE "done",
            round |-> [human |-> human, ai |-> ai, moves |-> <<>>,
                       outcome |-> [kind |-> "none", text |-> <<>>],
                       score |-> Score(0, 0)],
            rounds |-> RoundsAfter(g, human)]

(***************************************************************************)
(* The inputs of the model.                                                *)
(***************************************************************************)
NoArg == [kind |-> "none", rows |-> <<>>]

BadFiles == {[kind |-> k, rows |-> <<>>] : k \in {"missing", "directory", "undecodable"}}

\* The j-th verb of a row of a catalog of distinct names; the odd ones are
\* padded with blanks, as after a comma and a space in the file.
CanonVerb(j) ==
  IF j % 2 = 1 THEN <<" ", "v", Letters[j], " ">> ELSE <<"v", Letters[j]>>

\* n rows with the names a, b, c, ... and v verbs each.
CanonRows(n, v) ==
  [k \in 1..n |-> << <<Letters[k]>> >> \o [j \in 1..v |-> CanonVerb(j)]]

\* The rows a catalog is freely drawn from: a blank name, a name twice
\* (with and without verbs), a name that holds it.
RowPool ==
  { << <<>> >>,
    << <<"a">> >>,
    << <<"a">>, <<" ", "x">>, <<"y">> >>,
    << <<"a", "b">>, <<"x">> >> }

\* The rows with a blank line after the first p of them (at the end when
\* there are fewer).
WithBlankLine(rows, p) ==
  LET q == IF p > Len(rows) THEN Len(rows) ELSE p
  IN  SubSeq(rows, 1, q) \o << <<>> >> \o SubSeq(rows, q + 1, Len(rows))

ArbRows(longest) == UNION {[1..n -> RowPool] : n \in 0..longest}

\* The files with at most `longest` rows of distinct names and at most
\* `verbs` verbs a row, those of at most `free` freely drawn rows, and
\* those with a blank line.
CsvFiles(longest, verbs, free) ==
  {[kind |-> "csv", rows |-> CanonRows(n, v)] : n \in 0..longest, v \in 0..verbs}
    \cup {[kind |-> "csv", rows |-> rows] : rows \in ArbRows(free)}
    \cup {[kind |-> "csv", rows |-> WithBlankLine(CanonRows(n, 1), p)] :
            n \in 0..MaxArbRows, p \in 0..MaxArbRows}

\* The lines that are commands, as typed and with blanks around them.
CommandLines ==
  { <<>>, <<" ">>, <<"q", "u", "i", "t">>, <<"p", "o", "i", "n", "t", "s">>,
    <<"r", "o", "u", "n", "d", "s">>, <<"?">>, <<" ", "d", "i", "a", " ">>,
    <<"d", "i", "a", "g", "r", "a", "m">> }

\* The lines the human types: the commands, blank lines, text that is no
\* move, the names of the moves, and parts of names in either case.
Lines(g) ==
  CommandLines
    \cup { <<"z", "z">>, <<"r">>, <<" ", "A">> }
    \cup {g.move_objs[k].move : k \in 1..Len(g.move_objs)}

(***************************************************************************)
(* The program.                                                            *)
(***************************************************************************)
Start(files) ==
  /\ pc = "start"
  /\ argv \in files
  /\ game = NoGame
  /\ the_round = NoRound
  /\ diagram = NoDiagram
  /\ played = 0
  /\ decided = 0

Init == Start({NoArg} \cup BadFiles \cup CsvFiles(MaxRows, 1, MaxArbRows))

\* main: game = Game(sys.argv[1])
StartGame ==
  /\ pc = "start"
  /\ argv.kind # "none"
  /\ IF OpenError(argv) = "none"
       THEN pc' = "playing" /\ game' = GameOf(argv)
       ELSE pc' = "exited" /\ game' = game
  /\ UNCHANGED <<argv, the_round, diagram, played, decided>>

\* main: sys.argv[1] raises IndexError, game = DefaultGame()
StartDefaultGame ==
  /\ pc = "start"
  /\ argv.kind = "none"
  /\ pc' = "playing"
  /\ game' = DefaultGame
  /\ UNCHANGED <<argv, the_round, diagram, played, decided>>

\* One turn of the loop of main: the_round = Round(game), then the scores
\* of the round are added to those of the game.
Turn(lines) ==
  /\ pc = "playing"
  /\ \E line \in lines :
       LET human == get_human_move(game, line)
       IN  /\ MoveIsTruthy(human) => game.rounds < MaxRounds
           /\ diagram' = IF DrawsDiagram(line) THEN Diagram(game.move_objs)
                         ELSE diagram
           /\ played' = IF MoveIsTruthy(human) THEN played + 1 ELSE played
           /\ \E k \in 1..Len(game.move_objs) :
                LET ai == game.move_objs[k]
                    r == Round(game, human, ai)
                IN  /\ decided' = IF MoveIsTruthy(human) /\ human # ai
                                    THEN decided + 1 ELSE decided
                    /\ CASE r.status = "exit" ->
                              pc' = "quit" /\ UNCHANGED <<game, the_round>>
                         [] r.status = "raise" ->
                              pc' = "crashed" /\ UNCHANGED <<game, the_round>>
                         [] OTHER ->
                              /\ pc' = pc
                              /\ the_round' = r.round
                              /\ game' = [game EXCEPT
                                   !.rounds = r.rounds,
                                   !.score = Score(
                                     game.score.human + r.round.score.human,
                                     game.score.ai + r.round.score.ai)]
  /\ UNCHANGED argv

PlayRound == Turn(Lines(game))

Next == StartGame \/ StartDefaultGame \/ PlayRound

Spec == Init /\ [][Next]_vars

(***************************************************************************)
(* The program with longer catalogs, on which the human types commands     *)
(* only: the catalog is built and drawn, no move is played.                *)
(***************************************************************************)
CatalogInit == Start({NoArg} \cup BadFiles \cup CsvFiles(MaxCatalog, MaxVerbs, MaxArbCatalog))

CommandRound == Turn(CommandLines)

CatalogNext == StartGame \/ StartDefaultGame \/ CommandRound

SpecCatalog == CatalogInit /\ [][CatalogNext]_vars

(***************************************************************************)
(* A Diagram built on its own from a list of Move objects of any length.   *)
(***************************************************************************)
LayoutRows == UNION {[1..n -> RowPool] : n \in 1..MaxLayout}

LayoutInit ==
  /\ pc = "layout"
  /\ argv \in {[kind |-> "csv", rows |-> rows] : rows \in LayoutRows}
  /\ game = [NoGame EXCEPT !.move_objs = BuildMoves(argv.rows)]
  /\ the_round = NoRound
  /\ diagram = NoDiagram
  /\ played = 0
  /\ decided = 0

BuildDiagram ==
  /\ pc = "layout"
  /\ pc' = "laid"
  /\ diagram' = Diagram(game.move_objs)
  /\ UNCHANGED <<argv, game, the_round, played, decided>>

LayoutNext == BuildDiagram

SpecLayout == LayoutInit /\ [][LayoutNext]_vars

(***************************************************************************)
(* Properties.                                                             *)
(***************************************************************************)
\* The Move objects of the game, their number and their names.
Objs == game.move_objs

N == Len(game.move_objs)

Names == [k \in 1..N |-> game.move_objs[k].move]

DistinctNames == \A a, b \in 1..N : a # b => Names[a] # Names[b]

Built == pc \in {"playing", "quit", "crashed"}

\* Move i beats move j (indices from 0) by the index-keyed list ...
IdxBeats(i, j) == j \in Elems(Objs[i + 1].beats_num)

\* ... and by the name-keyed dictionary, as Round.__init__ decides it.
NameBeats(i, j) == Objs[j + 1].move \in DOMAIN Objs[i + 1].beats

\* The rows the Move objects of the game were built from.
SourceRows == IF argv.kind = "none" THEN DefaultRows
              ELSE SelectSeq(argv.rows, LAMBDA row : row # <<>>)

\* C1: in a catalog of an odd number N >= 3 of distinct names, the indices
\* of the names that are keys of a move's beats are the indices listed in
\* its beats_num, for every move.
C1_BeatsSetsAgree ==
  (Built /\ DistinctNames) =>
    /\ N % 2 = 1 /\ N >= 3
    /\ \A i \in 0..(N - 1) :
         {j \in 0..(N - 1) : Names[j + 1] \in DOMAIN Objs[i + 1].beats}
           = Elems(Objs[i + 1].beats_num)

C1_Witness == pc = "playing" /\ N = 21 /\ DistinctNames

\* A relation on the indices 0..N-1 is balanced: every move beats exactly
\* (N-1)/2 others and is beaten by exactly (N-1)/2 others, none beats
\* itself, and no two moves beat each other.
Balanced(Beats(_, _)) ==
  /\ \A i \in 0..(N - 1) :
       /\ ~Beats(i, i)
       /\ Cardinality({j \in 0..(N - 1) : j # i /\ Beats(i, j)}) = (N - 1) \div 2
       /\ Cardinality({j \in 0..(N - 1) : j # i /\ Beats(j, i)}) = (N - 1) \div 2
  /\ \A i, j \in 0..(N - 1) : ~(Beats(i, j) /\ Beats(j, i))

\* C2: in every game built (N odd, N >= 3) the beats relation over the N
\* moves is balanced: every move beats exactly (N-1)/2 other moves and is
\* beaten by exactly (N-1)/2, no move beats itself, no two moves beat each
\* other.  It holds of the moves as listed by beats_num, whose entries are
\* (N-1)/2 distinct indices of the catalog, and of the moves as named by
\* the keys of beats whenever the names tell the moves apart.
C2_Balanced ==
  Built =>
    /\ N % 2 = 1 /\ N >= 3
    /\ \A i \in 0..(N - 1) :
         /\ Len(Objs[i + 1].beats_num) = (N - 1) \div 2
         /\ Elems(Objs[i + 1].beats_num) \subseteq 0..(N - 1)
    /\ Balanced(IdxBeats)
    /\ DistinctNames => Balanced(NameBeats)

C2_Witness == pc = "playing" /\ N = 7 /\ DistinctNames /\ IdxBeats(6, 0)

\* The number of rows of the file that are not blank lines.
RowCount == Cardinality({k \in 1..Len(argv.rows) : argv.rows[k] # <<>>})

\* C3: a Game built from a file whose count of non-blank rows is even or
\* less than 3 ends in the error exit: no Move object was constructed, no
\* Game exists and no round is played.
C3_BadCountFails ==
  (pc # "start" /\ argv.kind = "csv" /\ (RowCount % 2 = 0 \/ RowCount < 3)) =>
    /\ pc = "exited"
    /\ game = NoGame
    /\ the_round = NoRound
    /\ played = 0

C3_Witness ==
  /\ pc = "exited" /\ argv.kind = "csv" /\ RowCount = 1
  /\ Len(argv.rows) = 2

\* C4, as the specification states it: a file of an odd number N >= 3 of
\* rows in which a name is blank or two rows carry the same name fails with
\* an error and produces no catalog.
C4_BadNamesFail ==
  LET rows == SelectSeq(argv.rows, LAMBDA row : row # <<>>)
      blank == \E k \in 1..Len(rows) : rows[k][1] = <<>>
      twice == \E a, b \in 1..Len(rows) : a # b /\ rows[a][1] = rows[b][1]
  IN  (pc # "start" /\ argv.kind = "csv" /\ RowCount % 2 = 1 /\ RowCount >= 3
         /\ (blank \/ twice)) =>
        pc = "exited" /\ game = NoGame

\* The name of the move defeated by move i at its j-th odd offset.
LoserAt(i, j) == Names[((i + 2 * j + 1) % N) + 1]

\* C5, as the specification states it: the move at the j-th odd offset of
\* move i is paired with the j-th verb of the verb list of the row of i
\* when the list has one, and with "beats" when it has not.
C5_VerbAsListed ==
  Built =>
    \A i \in 0..(N - 1) : \A j \in 0..((N - 3) \div 2) :
      LET verbs == Tail(SourceRows[i + 1])
      IN  /\ LoserAt(i, j) \in DOMAIN Objs[i + 1].beats
          /\ Objs[i + 1].beats[LoserAt(i, j)]
               = IF j < Len(verbs) THEN verbs[j + 1] ELSE <<"b", "e", "a", "t", "s">>

\* C5 amended: the name at the j-th odd offset of move i is a key of its
\* beats, paired with the verb of the last odd offset m that carries this
\* name (m = j when no later offset does): the m-th verb of the list with
\* the whitespace around it stripped when the list has one, "beats" when
\* it has not.
C5_VerbStrippedLastWins ==
  Built =>
    \A i \in 0..(N - 1) : \A j \in 0..((N - 3) \div 2) :
      LET verbs == Tail(SourceRows[i + 1])
          same == {m \in 0..((N - 3) \div 2) : LoserAt(i, m) = LoserAt(i, j)}
          last == CHOOSE m \in same : \A o \in same : o <= m
      IN  /\ LoserAt(i, j) \in DOMAIN Objs[i + 1].beats
          /\ Objs[i + 1].beats[LoserAt(i, j)]
               = IF last < Len(verbs) THEN Strip(verbs[last + 1])
                 ELSE <<"b", "e", "a", "t", "s">>

C5_Witness ==
  /\ pc = "playing" /\ N = 5 /\ DistinctNames
  /\ Len(SourceRows[1]) = 2
  /\ SourceRows[1][2] # Strip(SourceRows[1][2])
  /\ Objs[1].beats[LoserAt(0, 0)] = Strip(SourceRows[1][2])
  /\ Objs[1].beats[LoserAt(0, 1)] = <<"b", "e", "a", "t", "s">>

\* C6: the Diagram of a game of N moves draws exactly one edge (i, j) for
\* every move index i and every j of beats_num of move i; every j is the
\* index of a point and differs from i; there are N * (N - 1) / 2 edges.
C6_Edges ==
  (Built /\ diagram # NoDiagram) =>
    LET e == diagram.edges
    IN  /\ Len(e) = (N * (N - 1)) \div 2
        /\ \A a, b \in 1..Len(e) : a # b => e[a] # e[b]
        /\ Elems(e) = {p \in (0..(N - 1)) \X (0..(N - 1)) : IdxBeats(p[1], p[2])}
        /\ \A a \in 1..Len(e) :
             /\ e[a][1] \in 0..(Len(diagram.move_points) - 1)
             /\ e[a][2] \in 0..(Len(diagram.move_points) - 1)
             /\ e[a][2] # e[a][1]

C6_Witness ==
  /\ Built /\ N = 21 /\ Len(diagram.edges) = 210
  /\ Len(diagram.move_points) = 21

\* C7, as the specification states it: the k-th point of move_points
\* (k from 0) lies at the clockwise angle k * 360 / N from north, so that
\* the point of move 0 is the north point (R, r).
C7_PointsStartNorth ==
  (Built /\ diagram # NoDiagram) =>
    /\ Len(diagram.move_points) = N
    /\ \A k \in 0..(N - 1) :
         diagram.move_points[k + 1]
           = PointAt(Rat(k * FULL_CIRCLE, N), DiagramRadius, CircleRadius(N))
    /\ diagram.move_points[1] = Point(Exact(DiagramRadius), Exact(CircleRadius(N)))

\* C8: with S = 1000 and 4 points (r = 125) the layout holds exactly the
\* four cardinal points north (500, 125), east (875, 500), south (500, 875)
\* and west (125, 500), each placed by an exact branch: no sine or cosine
\* enters a coordinate.
C8_Cardinals ==
  (pc = "laid" /\ N = 4) =>
    /\ diagram.r = 125
    /\ Len(diagram.move_points) = 4
    /\ Elems(diagram.move_points)
         = { Point(Exact(500), Exact(125)), Point(Exact(875), Exact(500)),
             Point(Exact(500), Exact(875)), Point(Exact(125), Exact(500)) }
    /\ \A k \in 1..4 :
         /\ diagram.move_points[k].x.leg = "none"
         /\ diagram.move_points[k].y.leg = "none"

C8_Witness ==
  /\ pc = "laid" /\ N = 4
  /\ diagram.move_points[1] = Point(Exact(875), Exact(500))

\* C9: in a game of distinct names every round with a real move of the
\* human ends in exactly one of three outcomes, whatever the AI chose:
\* stalemate when both chose the same move, one point to the AI when the
\* move of the AI beats that of the human, one point to the human when the
\* move of the human beats that of the AI.  The raise of "Invalid move" is
\* never reached: of two distinct moves exactly one beats the other.
C9_RoundOutcome ==
  (Built /\ DistinctNames) =>
    /\ pc # "crashed"
    /\ \A i, j \in 0..(N - 1) : i # j => (NameBeats(i, j) <=> ~NameBeats(j, i))
    /\ MoveIsTruthy(the_round.human) =>
         LET h == the_round.human.num
             a == the_round.ai.num
             kind == the_round.outcome.kind
         IN  /\ kind \in {"stalemate", "ai", "human"}
             /\ kind = "stalemate" <=> h = a
             /\ kind = "ai" <=> IdxBeats(a, h)
             /\ kind = "human" <=> IdxBeats(h, a)
             /\ the_round.score = Score(IF kind = "human" THEN 1 ELSE 0,
                                        IF kind = "ai" THEN 1 ELSE 0)

C9_Witness ==
  /\ pc = "playing" /\ N = 5 /\ DistinctNames
  /\ MoveIsTruthy(the_round.human)
  /\ the_round.outcome.kind = "human"
  /\ the_round.human.num = 4 /\ the_round.ai.num = 0

\* C10: game.rounds is the number of rounds in which the human entered a
\* real move, score.human + score.ai is the number of those that were no
\* stalemate (so it is at most rounds), and a round of a command that does
\* not quit or of unrecognised text leaves the scores and rounds as they
\* were.
C10_Counts ==
  /\ [](Built =>
          /\ game.rounds = played
          /\ game.score.human + game.score.ai = decided
          /\ game.score.human + game.score.ai <= game.rounds)
  /\ [][(pc = "playing" /\ ~MoveIsTruthy(the_round'.human)) =>
          (game'.score = game.score /\ game'.rounds = game.rounds)]_vars

C10_Witness ==
  /\ pc = "playing" /\ game.rounds = 2
  /\ game.score.human + game.score.ai = 1
  /\ ~MoveIsTruthy(the_round.human)
  /\ diagram # NoDiagram

====
